---------------------------- MODULE Spec2Model ----------------------------
(***************************************************************************)
(* Model of the log-to-record extraction engine of ai-pipeline-monitoring  *)
(* (src/src/log_processor.py) and of the entry guard of its two analyzers. *)
(* Log text is modelled as real character strings; the regular expressions *)
(* of the source are matched character by character with Python's          *)
(* leftmost, greedy, backtracking semantics.                               *)
(***************************************************************************)
EXTENDS Integers, Sequences, FiniteSets, TLC

(***************************************************************************)
(* Characters and strings (Python str methods used by the source)          *)
(***************************************************************************)

LowerLetters == "abcdefghijklmnopqrstuvwxyz"
UpperLetters == "ABCDEFGHIJKLMNOPQRSTUVWXYZ"
DigitChars == {"0", "1", "2", "3", "4", "5", "6", "7", "8", "9"}
\* the characters str.strip() removes and the regex class \s matches
WhitespaceChars == {" ", "\t", "\n", "\r", "\f"}

Chars(s) == [i \in 1..Len(s) |-> SubSeq(s, i, i)]

LetterIndex(letters, c) ==
    IF \E i \in 1..Len(letters) : SubSeq(letters, i, i) = c
    THEN CHOOSE i \in 1..Len(letters) : SubSeq(letters, i, i) = c
    ELSE 0

\* str.upper() / str.lower() on one character
UpperChar(c) ==
    LET i == LetterIndex(LowerLetters, c)
    IN IF i = 0 THEN c ELSE SubSeq(UpperLetters, i, i)

LowerChar(c) ==
    LET i == LetterIndex(UpperLetters, c)
    IN IF i = 0 THEN c ELSE SubSeq(LowerLetters, i, i)

RECURSIVE str_upper(_)
str_upper(s) ==
    IF Len(s) = 0 THEN ""
    ELSE IF Len(s) = 1 THEN UpperChar(s)
    ELSE LET h == Len(s) \div 2
         IN str_upper(SubSeq(s, 1, h)) \o str_upper(SubSeq(s, h + 1, Len(s)))

\* p in s
str_contains(s, p) ==
    \E i \in 1..(Len(s) - Len(p) + 1) : SubSeq(s, i, i + Len(p) - 1) = p

str_startswith(s, p) ==
    Len(p) <= Len(s) /\ SubSeq(s, 1, Len(p)) = p

SetMin(S) == CHOOSE x \in S : \A y \in S : x <= y
SetMax(S) == CHOOSE x \in S : \A y \in S : x >= y

\* s.strip(): s without its leading and trailing whitespace
str_strip(s) ==
    LET kept == {i \in 1..Len(s) : SubSeq(s, i, i) \notin WhitespaceChars}
    IN IF kept = {} THEN "" ELSE SubSeq(s, SetMin(kept), SetMax(kept))

\* s.split('\n'): the pieces between the newlines at the positions nl, from
\* start on; always at least one piece
RECURSIVE SplitFrom(_, _, _)
SplitFrom(s, nl, start) ==
    LET later == {i \in nl : i >= start}
    IN IF later = {} THEN <<SubSeq(s, start, Len(s))>>
       ELSE <<SubSeq(s, start, SetMin(later) - 1)>> \o SplitFrom(s, nl, SetMin(later) + 1)

str_split(s) == SplitFrom(s, {i \in 1..Len(s) : SubSeq(s, i, i) = "\n"}, 1)

\* '\n'.join(lines)
RECURSIVE str_join(_)
str_join(lines) ==
    IF lines = <<>> THEN ""
    ELSE IF Len(lines) = 1 THEN lines[1]
    ELSE lines[1] \o "\n" \o str_join(Tail(lines))

\* Faulty variant: the slice is forgotten: every collected line is returned
SliceAll(lines, n) == lines

\* lines[:n]
Slice(lines, n) == SubSeq(lines, 1, IF Len(lines) < n THEN Len(lines) ELSE n)

(***************************************************************************)
(* Regular expressions.  A pattern is a sequence of alternatives, an       *)
(* alternative a sequence of items, an item a character class repeated     *)
(* exactly min times (a literal, a counted digit class) or, when star is    *)
(* set, greedily min times or more (the source's plus and star items).     *)
(***************************************************************************)

Item(set, neg, min, star) == [set |-> set, neg |-> neg, min |-> min, star |-> star]

One(set) == Item(set, FALSE, 1, FALSE)
Times(set, n) == Item(set, FALSE, n, FALSE)
Plus(set) == Item(set, FALSE, 1, TRUE)
Star(set) == Item(set, FALSE, 0, TRUE)
NotPlus(set) == Item(set, TRUE, 1, TRUE)
\* '.' matches everything but a newline (no DOTALL flag in the source)
DotStar == Item({"\n"}, TRUE, 0, TRUE)

Lit(s) == [i \in 1..Len(s) |-> One({SubSeq(s, i, i)})]

\* re.IGNORECASE: a class matches a character when it holds either case of it
FoldItem(it) ==
    [it EXCEPT !.set = it.set \cup {LowerChar(c) : c \in it.set}
                              \cup {UpperChar(c) : c \in it.set}]
FoldAlt(alt) == [i \in 1..Len(alt) |-> FoldItem(alt[i])]

\* does character c match the class of item it
InClass(c, it) == (c \in it.set) # it.neg

\* the longest run of characters from pos that the class of item it matches
Run(it, cs, pos) ==
    LET limit == Len(cs) + 1 - pos
    IN SetMin({n \in 0..limit : n = limit \/ ~InClass(cs[pos + n], it)})

\* do the items k.. of alt match at pos (for some split of the text between
\* the repeated items)
RECURSIVE Matches(_, _, _, _)
Matches(alt, cs, k, pos) ==
    IF k > Len(alt) THEN TRUE
    ELSE IF ~alt[k].star
         THEN /\ pos + alt[k].min <= Len(cs) + 1
              /\ \A j \in 0..(alt[k].min - 1) : InClass(cs[pos + j], alt[k])
              /\ Matches(alt, cs, k + 1, pos + alt[k].min)
         ELSE \E n \in alt[k].min..Run(alt[k], cs, pos) :
                 Matches(alt, cs, k + 1, pos + n)

\* The match of items k.. of alt at pos, given that there is one: the start
\* position of every item from k on, followed by the end of the match.  A
\* greedy item first takes its longest run and gives characters back one by
\* one until the rest of the pattern matches: the largest count that works.
RECURSIVE MatchFrom(_, _, _, _)
MatchFrom(alt, cs, k, pos) ==
    IF k > Len(alt) THEN <<pos>>
    ELSE LET n == IF ~alt[k].star THEN alt[k].min
                  ELSE SetMax({m \in alt[k].min..Run(alt[k], cs, pos) :
                                  Matches(alt, cs, k + 1, pos + m)})
         IN <<pos>> \o MatchFrom(alt, cs, k + 1, pos + n)

\* re.search(pattern, s) is not None
re_matches(alts, s) ==
    LET cs == Chars(s)
    IN \E a \in 1..Len(alts) : \E pos \in 1..(Len(cs) + 1) : Matches(alts[a], cs, 1, pos)

\* re.search(pattern, s), and group(1) of the match, for a pattern of one
\* alternative whose group spans items g1..g2: the leftmost match
re_search_group(alt, g1, g2, s) ==
    LET cs == Chars(s)
        starts == {pos \in 1..(Len(cs) + 1) : Matches(alt, cs, 1, pos)}
    IN IF starts = {} THEN [found |-> FALSE, group |-> ""]
       ELSE LET m == MatchFrom(alt, cs, 1, SetMin(starts))
            IN [found |-> TRUE, group |-> SubSeq(s, m[g1], m[g2 + 1] - 1)]

\* a compiled pattern: its alternatives and the items g1..g2 of group 1
Compiled(alts) == [alts |-> alts, g1 |-> 0, g2 |-> 0]
Grouped(pre, grp, post) ==
    [alts |-> <<pre \o grp \o post>>, g1 |-> Len(pre) + 1, g2 |-> Len(pre) + Len(grp)]
Folded(c) == [c EXCEPT !.alts = [a \in 1..Len(c.alts) |-> FoldAlt(c.alts[a])]]

\* \d{4}-\d{2}-\d{2} \d{2}:\d{2}:\d{2}
DateTimeItems ==
    <<Times(DigitChars, 4)>> \o Lit("-") \o <<Times(DigitChars, 2)>> \o Lit("-")
    \o <<Times(DigitChars, 2)>> \o Lit(" ") \o <<Times(DigitChars, 2)>> \o Lit(":")
    \o <<Times(DigitChars, 2)>> \o Lit(":") \o <<Times(DigitChars, 2)>>

\* \d{4}-\d{2}-\d{2}T\d{2}:\d{2}:\d{2}\.\d+Z
IsoItems ==
    <<Times(DigitChars, 4)>> \o Lit("-") \o <<Times(DigitChars, 2)>> \o Lit("-")
    \o <<Times(DigitChars, 2)>> \o Lit("T") \o <<Times(DigitChars, 2)>> \o Lit(":")
    \o <<Times(DigitChars, 2)>> \o Lit(":") \o <<Times(DigitChars, 2)>> \o Lit(".")
    \o <<Plus(DigitChars)>> \o Lit("Z")

\* \d{2}/\d{2}/\d{2} \d{2}:\d{2}:\d{2}
SlashItems ==
    <<Times(DigitChars, 2)>> \o Lit("/") \o <<Times(DigitChars, 2)>> \o Lit("/")
    \o <<Times(DigitChars, 2)>> \o Lit(" ") \o <<Times(DigitChars, 2)>> \o Lit(":")
    \o <<Times(DigitChars, 2)>> \o Lit(":") \o <<Times(DigitChars, 2)>>

\* The pattern strings of the source, each with what the re module compiles
\* it to (and, for the patterns searched with re.IGNORECASE, its folded form).
SrcConnectionTimeout == "connection.*timeout|timed out|Connection timed out"
ReConnectionTimeout ==
    Compiled(<<Lit("connection") \o <<DotStar>> \o Lit("timeout"),
              Lit("timed out"), Lit("Connection timed out")>>)
ReIConnectionTimeout == Folded(ReConnectionTimeout)

SrcMemoryError == "OutOfMemoryError|Java heap space|memory.*exceeded"
ReMemoryError ==
    Compiled(<<Lit("OutOfMemoryError"), Lit("Java heap space"),
              Lit("memory") \o <<DotStar>> \o Lit("exceeded")>>)
ReIMemoryError == Folded(ReMemoryError)

SrcPermissionDenied == "AccessDenied|permission.*denied|not authorized"
RePermissionDenied ==
    Compiled(<<Lit("AccessDenied"),
              Lit("permission") \o <<DotStar>> \o Lit("denied"),
              Lit("not authorized")>>)
ReIPermissionDenied == Folded(RePermissionDenied)

SrcFileNotFound == "FileNotFoundException|No such file|does not exist"
ReFileNotFound ==
    Compiled(<<Lit("FileNotFoundException"), Lit("No such file"), Lit("does not exist")>>)
ReIFileNotFound == Folded(ReFileNotFound)

SrcSqlError == "SQLException|syntax error|PARSE_SYNTAX_ERROR"
ReSqlError ==
    Compiled(<<Lit("SQLException"), Lit("syntax error"), Lit("PARSE_SYNTAX_ERROR")>>)
ReISqlError == Folded(ReSqlError)

SrcNetworkError == "NetworkException|connection refused|Connection refused"
ReNetworkError ==
    Compiled(<<Lit("NetworkException"), Lit("connection refused"), Lit("Connection refused")>>)
ReINetworkError == Folded(ReNetworkError)

SrcAirflow == "airflow|taskinstance\\.py"
ReAirflow ==
    Compiled(<<Lit("airflow"), Lit("taskinstance.py")>>)
ReIAirflow == Folded(ReAirflow)

SrcEmr == "org\\.apache\\.spark|SparkException"
ReEmr ==
    Compiled(<<Lit("org.apache.spark"), Lit("SparkException")>>)
ReIEmr == Folded(ReEmr)

SrcLambda == "ERROR.*Z.*lambda_handler|botocore\\.exceptions"
ReLambda ==
    Compiled(<<Lit("ERROR") \o <<DotStar>> \o Lit("Z") \o <<DotStar>> \o Lit("lambda_handler"),
              Lit("botocore.exceptions")>>)
ReILambda == Folded(ReLambda)

SrcDatabricks == "SparkSQLException|databricks|notebook"
ReDatabricks ==
    Compiled(<<Lit("SparkSQLException"), Lit("databricks"), Lit("notebook")>>)
ReIDatabricks == Folded(ReDatabricks)

SrcTsAirflow == "\\[(\\d{4}-\\d{2}-\\d{2} \\d{2}:\\d{2}:\\d{2}),\\d+\\]"
ReTsAirflow ==
    Grouped(Lit("["), DateTimeItems, Lit(",") \o <<Plus(DigitChars)>> \o Lit("]"))

SrcTsEmr == "(\\d{4}-\\d{2}-\\d{2} \\d{2}:\\d{2}:\\d{2}),\\d+"
ReTsEmr ==
    Grouped(<<>>, DateTimeItems, Lit(",") \o <<Plus(DigitChars)>>)

SrcTsLambda == "\\[ERROR\\] (\\d{4}-\\d{2}-\\d{2}T\\d{2}:\\d{2}:\\d{2}\\.\\d+Z)"
ReTsLambda ==
    Grouped(Lit("[ERROR] "), IsoItems, <<>>)

SrcTsDatabricks == "(\\d{2}/\\d{2}/\\d{2} \\d{2}:\\d{2}:\\d{2})"
ReTsDatabricks ==
    Grouped(<<>>, SlashItems, <<>>)

SrcPipelineLabel == "Pipeline:\\s*([^\\s,]+)"
RePipelineLabel ==
    Grouped(Lit("Pipeline:") \o <<Star(WhitespaceChars)>>,
            <<NotPlus(WhitespaceChars \cup {","})>>, <<>>)

SrcTaskDag == "Task\\s+([^.]+\\.[^.]+)"
ReTaskDag ==
    Grouped(Lit("Task") \o <<Plus(WhitespaceChars)>>,
            <<NotPlus({"."})>> \o Lit(".") \o <<NotPlus({"."})>>, <<>>)

SrcFunctionLabel == "Function:\\s*([^\\s,]+)"
ReFunctionLabel ==
    Grouped(Lit("Function:") \o <<Star(WhitespaceChars)>>,
            <<NotPlus(WhitespaceChars \cup {","})>>, <<>>)

SrcNotebookPath == "Notebook:\\s*/[^/]+/([^/]+)"
ReNotebookPath ==
    Grouped(Lit("Notebook:") \o <<Star(WhitespaceChars)>> \o Lit("/")
              \o <<NotPlus({"/"})>> \o Lit("/"),
            <<NotPlus({"/"})>>, <<>>)

SrcStepLabel == "Step:\\s*([^\\s,\\n]+)"
ReStepLabel ==
    Grouped(Lit("Step:") \o <<Star(WhitespaceChars)>>,
            <<NotPlus(WhitespaceChars \cup {",", "\n"})>>, <<>>)

SrcTaskStep == "Task\\s+[^.]+\\.([^.\\s]+)"
ReTaskStep ==
    Grouped(Lit("Task") \o <<Plus(WhitespaceChars), NotPlus({"."})>> \o Lit("."),
            <<NotPlus(WhitespaceChars \cup {"."})>>, <<>>)

SrcStageNumber == "Stage\\s+(\\d+)"
ReStageNumber ==
    Grouped(Lit("Stage") \o <<Plus(WhitespaceChars)>>, <<Plus(DigitChars)>>, <<>>)

SrcApplicationLabel == "Application:\\s*([^\\s,]+)"
ReApplicationLabel ==
    Grouped(Lit("Application:") \o <<Star(WhitespaceChars)>>,
            <<NotPlus(WhitespaceChars \cup {","})>>, <<>>)

\* re.compile(p, re.IGNORECASE if ic else 0)
re_compile(p, ic) ==
    CASE p = SrcConnectionTimeout -> IF ic THEN ReIConnectionTimeout ELSE ReConnectionTimeout
      [] p = SrcMemoryError -> IF ic THEN ReIMemoryError ELSE ReMemoryError
      [] p = SrcPermissionDenied -> IF ic THEN ReIPermissionDenied ELSE RePermissionDenied
      [] p = SrcFileNotFound -> IF ic THEN ReIFileNotFound ELSE ReFileNotFound
      [] p = SrcSqlError -> IF ic THEN ReISqlError ELSE ReSqlError
      [] p = SrcNetworkError -> IF ic THEN ReINetworkError ELSE ReNetworkError
      [] p = SrcAirflow -> IF ic THEN ReIAirflow ELSE ReAirflow
      [] p = SrcEmr -> IF ic THEN ReIEmr ELSE ReEmr
      [] p = SrcLambda -> IF ic THEN ReILambda ELSE ReLambda
      [] p = SrcDatabricks -> IF ic THEN ReIDatabricks ELSE ReDatabricks
      [] p = SrcTsAirflow -> IF ic THEN Folded(ReTsAirflow) ELSE ReTsAirflow
      [] p = SrcTsEmr -> IF ic THEN Folded(ReTsEmr) ELSE ReTsEmr
      [] p = SrcTsLambda -> IF ic THEN Folded(ReTsLambda) ELSE ReTsLambda
      [] p = SrcTsDatabricks -> IF ic THEN Folded(ReTsDatabricks) ELSE ReTsDatabricks
      [] p = SrcPipelineLabel -> IF ic THEN Folded(RePipelineLabel) ELSE RePipelineLabel
      [] p = SrcTaskDag -> IF ic THEN Folded(ReTaskDag) ELSE ReTaskDag
      [] p = SrcFunctionLabel -> IF ic THEN Folded(ReFunctionLabel) ELSE ReFunctionLabel
      [] p = SrcNotebookPath -> IF ic THEN Folded(ReNotebookPath) ELSE ReNotebookPath
      [] p = SrcStepLabel -> IF ic THEN Folded(ReStepLabel) ELSE ReStepLabel
      [] p = SrcTaskStep -> IF ic THEN Folded(ReTaskStep) ELSE ReTaskStep
      [] p = SrcStageNumber -> IF ic THEN Folded(ReStageNumber) ELSE ReStageNumber
      [] p = SrcApplicationLabel -> IF ic THEN Folded(ReApplicationLabel) ELSE ReApplicationLabel

\* re.search(pattern, content, flags) is truthy
re_search(p, content, ic) == re_matches(re_compile(p, ic).alts, content)

\* re.search(pattern, content) and its group(1)
re_search_group1(p, content) ==
    LET c == re_compile(p, FALSE)
    IN re_search_group(c.alts[1], c.g1, c.g2, content)

(***************************************************************************)
(* The extractors of LogProcessor                                          *)
(***************************************************************************)

\* datetime.now().strftime('%Y-%m-%d %H:%M:%S') at the clock reading t, a
\* number of seconds below 60 after the model's epoch
TwoDigits(n) == Chars("0123456789")[(n \div 10) + 1] \o Chars("0123456789")[(n % 10) + 1]
strftime(t) == "2026-11-02 09:00:" \o TwoDigits(t)

\* Faulty variant: the loop keeps going after a match: the last matching pattern wins
RECURSIVE LastGroup(_, _, _)
LastGroup(patterns, content, default) ==
    IF patterns = <<>> THEN default
    ELSE LET match == re_search_group1(Head(patterns), content)
         IN LastGroup(Tail(patterns), content, IF match.found THEN match.group ELSE default)

\* for pattern in patterns: match = re.search(...); if match: return match.group(1)
RECURSIVE FirstGroup(_, _, _)
FirstGroup(patterns, content, default) ==
    IF patterns = <<>> THEN default
    ELSE LET match == re_search_group1(Head(patterns), content)
         IN IF match.found THEN match.group
            ELSE FirstGroup(Tail(patterns), content, default)

\* Faulty variant: the loop keeps going after a match: the last matching key wins
RECURSIVE LastKey(_, _, _)
LastKey(table, content, default) ==
    IF table = <<>> THEN default
    ELSE LastKey(Tail(table), content,
                 IF re_search(Head(table)[2], content, TRUE) THEN Head(table)[1]
                 ELSE default)

\* for key, pattern in table.items(): if re.search(pattern, content,
\* re.IGNORECASE): return key
RECURSIVE FirstKey(_, _, _)
FirstKey(table, content, default) ==
    IF table = <<>> THEN default
    ELSE IF re_search(Head(table)[2], content, TRUE) THEN Head(table)[1]
    ELSE FirstKey(Tail(table), content, default)

\* Faulty variant: the two-digit-year format is tried first
TimestampPatternsReordered ==
    << SrcTsDatabricks, SrcTsAirflow, SrcTsEmr, SrcTsLambda >>

TimestampPatterns ==
    << SrcTsAirflow,
       SrcTsEmr,
       SrcTsLambda,
       SrcTsDatabricks >>

PipelinePatterns ==
    << SrcPipelineLabel,
       SrcTaskDag,
       SrcFunctionLabel,
       SrcNotebookPath >>

StepPatterns ==
    << SrcStepLabel,
       SrcTaskStep,
       SrcStageNumber,
       SrcApplicationLabel >>

ErrorKeywords == <<"ERROR", "EXCEPTION", "FAILED">>
MaxErrorLines == 3
MaxTraceLines == 10

\* Faulty variant: the fallback return sits inside the loop: only the first pattern
\* is ever tried
_extract_timestamp_one_pattern(content, t) ==
    FirstGroup(<<Head(TimestampPatterns)>>, content, strftime(t))

_extract_timestamp(content, t) == FirstGroup(TimestampPatterns, content, strftime(t))

_identify_service(table, content) == FirstKey(table, content, "unknown")

_classify_error(table, content) == FirstKey(table, content, "unknown_error")

_extract_pipeline_name(content) == FirstGroup(PipelinePatterns, content, "unknown_pipeline")

\* Faulty variant: no match gives an empty name
_extract_step_name_empty(content) == FirstGroup(StepPatterns, content, "")

_extract_step_name(content) == FirstGroup(StepPatterns, content, "unknown_step")

\* Faulty variant: the line is not upper-cased before the keywords are looked for
IsErrorLineCased(line) ==
    \E k \in 1..Len(ErrorKeywords) : str_contains(line, ErrorKeywords[k])

\* any(keyword in line.upper() for keyword in [...])
IsErrorLine(line) ==
    LET upper == str_upper(line)
    IN \E k \in 1..Len(ErrorKeywords) : str_contains(upper, ErrorKeywords[k])

StripAll(lines) == [i \in 1..Len(lines) |-> str_strip(lines[i])]

_extract_main_error(content) ==
    LET error_lines == StripAll(SelectSeq(str_split(content), IsErrorLine))
    IN str_join(Slice(error_lines, MaxErrorLines))

\* 'Traceback' in line or 'Exception' in line
IsHeaderLine(line) == str_contains(line, "Traceback") \/ str_contains(line, "Exception")

\* line.strip().startswith('at ') or line.strip().startswith('File ') or '\t' in line
IsFrameLine(line) ==
    \/ str_startswith(str_strip(line), "at ")
    \/ str_startswith(str_strip(line), "File ")
    \/ str_contains(line, "\t")

\* Faulty variant: no line ends the trace
IsBreakLineNever(line) == FALSE

\* line.strip() and not any(char in line for char in ['\t', '  at', 'File'])
IsBreakLine(line) ==
    /\ str_strip(line) # ""
    /\ ~(str_contains(line, "\t") \/ str_contains(line, "  at") \/ str_contains(line, "File"))

\* the for loop of _extract_stack_trace from line i on
RECURSIVE TraceLoop(_, _, _, _)
TraceLoop(lines, i, in_trace, stack_trace) ==
    IF i > Len(lines) THEN stack_trace
    ELSE IF IsHeaderLine(lines[i]) THEN TraceLoop(lines, i + 1, TRUE, stack_trace)
    ELSE IF in_trace /\ IsFrameLine(lines[i])
         THEN TraceLoop(lines, i + 1, in_trace, Append(stack_trace, str_strip(lines[i])))
    ELSE IF in_trace /\ IsBreakLine(lines[i]) THEN stack_trace
    ELSE TraceLoop(lines, i + 1, in_trace, stack_trace)

\* Faulty variant: in_trace starts out True: frame lines count from line 1 on
_extract_stack_trace_in_trace(content) ==
    str_join(Slice(TraceLoop(str_split(content), 1, TRUE, <<>>), MaxTraceLines))

_extract_stack_trace(content) ==
    str_join(Slice(TraceLoop(str_split(content), 1, FALSE, <<>>), MaxTraceLines))

ErrorPatternsInit ==
    << <<"connection_timeout", SrcConnectionTimeout>>,
       <<"memory_error", SrcMemoryError>>,
       <<"permission_denied", SrcPermissionDenied>>,
       <<"file_not_found", SrcFileNotFound>>,
       <<"sql_error", SrcSqlError>>,
       <<"network_error", SrcNetworkError>> >>

ServicePatternsInit ==
    << <<"airflow", SrcAirflow>>,
       <<"emr", SrcEmr>>,
       <<"lambda", SrcLambda>>,
       <<"databricks", SrcDatabricks>> >>

\* Faulty variant: a record that leaves out the stack trace when there is none
ErrorInfoSparse(service_table, error_table, content, file_path, t) ==
    LET trace == _extract_stack_trace(content)
        rest == [file_path |-> file_path,
                 timestamp |-> _extract_timestamp(content, t),
                 service |-> _identify_service(service_table, content),
                 error_type |-> _classify_error(error_table, content),
                 pipeline_name |-> _extract_pipeline_name(content),
                 step_name |-> _extract_step_name(content),
                 error_message |-> _extract_main_error(content),
                 full_content |-> content]
    IN IF trace = "" THEN rest ELSE rest @@ [stack_trace |-> trace]

\* the dict literal built by _extract_error_info
ErrorInfo(service_table, error_table, content, file_path, t) ==
    [file_path |-> file_path,
     timestamp |-> _extract_timestamp(content, t),
     service |-> _identify_service(service_table, content),
     error_type |-> _classify_error(error_table, content),
     pipeline_name |-> _extract_pipeline_name(content),
     step_name |-> _extract_step_name(content),
     error_message |-> _extract_main_error(content),
     stack_trace |-> _extract_stack_trace(content),
     full_content |-> content]

\* except Exception: ... return {}
EmptyRecord == <<>>

\* Faulty variant: no except clause: a failed read reaches the caller
process_log_file_unguarded(service_table, error_table, read_ok, text, path, t) ==
    IF read_ok
    THEN [ret |-> ErrorInfo(service_table, error_table, text, path, t),
          raised |-> FALSE, engine |-> 1]
    ELSE [ret |-> EmptyRecord, raised |-> TRUE, engine |-> 0]

\* process_log_file: the try block reads the file and runs the engine on what
\* was read; an exception of the read is caught and an empty record returned
process_log_file(service_table, error_table, read_ok, text, path, t) ==
    IF read_ok
    THEN [ret |-> ErrorInfo(service_table, error_table, text, path, t),
          raised |-> FALSE, engine |-> 1]
    ELSE [ret |-> EmptyRecord, raised |-> FALSE, engine |-> 0]

(***************************************************************************)
(* The analyzers' analyze_failure: the guard on the record and, past it,   *)
(* one request to the model, whose reply is the environment's choice.      *)
(***************************************************************************)

Analyzers == {"LLMAnalyzer", "OllamaAnalyzer"}

\* what the request can come to: a reply that parses, one that does not, a
\* failed call and (Ollama only) a status other than 200 or a failed connection
Replies(analyzer) ==
    IF analyzer = "LLMAnalyzer" THEN {"parsed", "unparsable", "exception"}
    ELSE {"parsed", "unparsable", "exception", "status", "connection"}

AnalysisOf(analyzer, reply) ==
    CASE reply = "parsed" -> [root_cause |-> "from the model"]
      [] reply = "unparsable" /\ analyzer = "LLMAnalyzer" ->
           [error |-> "Failed to parse LLM response", raw_response |-> "text"]
      [] reply = "unparsable" /\ analyzer = "OllamaAnalyzer" ->
           [error |-> "Failed to parse response", raw_response |-> "text",
            root_cause |-> "Unable to analyze - parsing error"]
      [] reply = "exception" -> [error |-> "LLM analysis failed"]
      [] reply = "status" -> [error |-> "Ollama API error"]
      [] reply = "connection" -> [error |-> "Connection to Ollama failed"]

\* if not error_info: return {"error": "No error information provided"}
analyze_failure(analyzer, error_info, reply) ==
    IF error_info = EmptyRecord
    THEN [ret |-> [error |-> "No error information provided"], requests |-> 0]
    ELSE [ret |-> AnalysisOf(analyzer, reply), requests |-> 1]

(***************************************************************************)
(* Inputs                                                                  *)
(***************************************************************************)

MaxClock == 1

Paths == {"data/a.log", "b.log"}

\* log lines carrying the markers the regex-driven extractors look for
MarkerLines ==
    << "[2024-01-15 10:30:45,123] AIRFLOW up",
       "2024-01-16 11:31:46,7 SparkException",
       "[ERROR] 2024-01-17T12:32:47.5Z lambda_handler",
       "01/18/24 13:33:48 Databricks",
       "Pipeline: data_ingestion_dag",
       "Step: extract_user_data",
       "Task dag_a.load failed",
       "Function: fn, Stage 3",
       "Notebook: /Users/etl/nb Application: app1",
       "Connection timed out",
       "Permission was DENIED: no such file",
       "java heap space",
       "task 7 done, stage 2",
       "plain line" >>

MarkerTexts ==
    {""} \cup {MarkerLines[i] : i \in 1..Len(MarkerLines)}
         \cup {MarkerLines[i] \o "\n" \o MarkerLines[j] :
                 i \in 1..Len(MarkerLines), j \in 1..Len(MarkerLines)}

\* The texts for the line-by-line extractors.
MaxErrLen == 5
MaxTraceLen == 3
MaxFrames == 12

Digit(i) == Chars("0123456789")[i + 1]

\* line i of an error-message text: qualifying (one of the three keywords, in
\* some case, inside surrounding whitespace) or not
ErrLineOf(i) ==
    CASE i % 3 = 1 -> "  ERROR e" \o Digit(i)
      [] i % 3 = 2 -> "\tjob Failed f" \o Digit(i) \o " "
      [] OTHER -> "an exception x" \o Digit(i)
OkLineOf(i) == IF i % 2 = 1 THEN " ok " \o Digit(i) ELSE "err0r fail " \o Digit(i)

ErrTexts ==
    {str_join([i \in 1..n |-> IF i \in S THEN ErrLineOf(i) ELSE OkLineOf(i)]) :
        n \in 0..MaxErrLen, S \in SUBSET (1..MaxErrLen)}

\* the lines of a trace text: a header, two frames, a line that ends the
\* trace, one that neither is a frame nor ends it, a blank line, and a frame
\* that names an exception class
TraceLines ==
    << "Exception occurred",
       "\tat foo.bar()",
       "  File \"x.py\", line 1",
       "Unrelated info line",
       "see File list",
       "",
       "\tat app.MyException.init()" >>

RECURSIVE SeqsUpTo(_, _)
SeqsUpTo(S, n) ==
    IF n = 0 THEN {<<>>}
    ELSE LET shorter == SeqsUpTo(S, n - 1)
         IN shorter \cup {Append(q, x) : q \in shorter, x \in S}

TraceTexts ==
    {str_join([i \in 1..Len(q) |-> TraceLines[q[i]]]) :
        q \in SeqsUpTo(1..Len(TraceLines), MaxTraceLen) \ {<<>>}}

\* a header, n frames that are error lines too, a line that ends the trace
\* and a frame after it
FrameLineOf(i) == "\tat onError(f" \o TwoDigits(i) \o ")"
FrameTexts ==
    {str_join(<<"Traceback (most recent call last):">>
              \o [i \in 1..n |-> FrameLineOf(i)]
              \o <<"done", "\tat late()">>) : n \in 0..MaxFrames}

\* the stack trace scenario of the specification, and lines with "  at"
ScenarioTexts ==
    { "Exception occurred\n\tat foo.bar()\n\tat baz.qux()\nUnrelated info line",
      "Traceback\n   at a.b()\nat c.d()\n \t \nx  at y\nFile z\nend\nat e.f()",
      "at a.b()\n\tat c.d()\nNo Exception\n\nx  at y\n\tat e.f()" }

LineTexts == ErrTexts \cup TraceTexts \cup FrameTexts \cup ScenarioTexts

(***************************************************************************)
(* State                                                                   *)
(***************************************************************************)

VARIABLES
    service_patterns,  \* LogProcessor.service_patterns, in insertion order
    error_patterns,    \* LogProcessor.error_patterns, in insertion order
    now,               \* the wall clock, in seconds
    file_path,         \* the log file the caller works on
    content,           \* its text
    pc,                \* where the caller is
    read_ok,           \* whether process_log_file could read the file
    result,            \* the record the last call returned
    raised,            \* whether the last call raised to its caller
    called_at,         \* the clock when the last call was made
    first,             \* the record of the first call, once it was repeated
    engine_calls,      \* invocations of _extract_error_info so far
    analysis,          \* what analyze_failure returned
    llm_requests,      \* requests sent to the model so far
    calls              \* the calls of _extract_error_info in flight, by caller

vars == <<service_patterns, error_patterns, now, file_path, content, pc, read_ok,
          result, raised, called_at, first, engine_calls, analysis, llm_requests,
          calls>>

tables == <<service_patterns, error_patterns>>
input == <<file_path, content>>

InitWith(texts, paths, clocks) ==
    /\ service_patterns = ServicePatternsInit
    /\ error_patterns = ErrorPatternsInit
    /\ now \in clocks
    /\ file_path \in paths
    /\ content \in texts
    /\ pc = "idle"
    /\ read_ok = TRUE
    /\ result = EmptyRecord
    /\ raised = FALSE
    /\ called_at = 0
    /\ first = EmptyRecord
    /\ engine_calls = 0
    /\ analysis = EmptyRecord
    /\ llm_requests = 0

Init == InitWith(MarkerTexts, Paths, 0..MaxClock) /\ calls = <<>>

\* the wall clock advances
Tick ==
    /\ now < MaxClock
    /\ now' = now + 1
    /\ UNCHANGED <<tables, input, pc, read_ok, result, raised, called_at, first,
                   engine_calls, analysis, llm_requests, calls>>

\* processor._extract_error_info(content, file_path)
ExtractErrorInfo ==
    /\ pc = "idle"
    /\ result' = ErrorInfo(service_patterns, error_patterns, content, file_path, now)
    /\ raised' = FALSE
    /\ called_at' = now
    /\ engine_calls' = engine_calls + 1
    /\ pc' = "extracted"
    /\ UNCHANGED <<tables, input, now, read_ok, first, analysis, llm_requests, calls>>

\* the same call once more, on the same text and path
ExtractAgain ==
    /\ pc = "extracted"
    /\ first' = result
    /\ result' = ErrorInfo(service_patterns, error_patterns, content, file_path, now)
    /\ raised' = FALSE
    /\ called_at' = now
    /\ engine_calls' = engine_calls + 1
    /\ pc' = "repeated"
    /\ UNCHANGED <<tables, input, now, read_ok, analysis, llm_requests, calls>>

\* processor.process_log_file(file_path); the read succeeds or fails
ProcessLogFile ==
    /\ pc = "idle"
    /\ \E ok \in BOOLEAN :
          LET out == process_log_file(service_patterns, error_patterns, ok,
                                      content, file_path, now)
          IN /\ read_ok' = ok
             /\ result' = out.ret
             /\ raised' = out.raised
             /\ engine_calls' = engine_calls + out.engine
    /\ called_at' = now
    /\ pc' = "processed"
    /\ UNCHANGED <<tables, input, now, first, analysis, llm_requests, calls>>

\* analyzer.analyze_failure(error_info) on the record the processor returned
AnalyzeFailure ==
    /\ pc = "processed"
    /\ ~raised
    /\ \E analyzer \in Analyzers : \E reply \in Replies(analyzer) :
          LET out == analyze_failure(analyzer, result, reply)
          IN /\ analysis' = out.ret
             /\ llm_requests' = llm_requests + out.requests
    /\ pc' = "analyzed"
    /\ UNCHANGED <<tables, input, now, read_ok, result, raised, called_at, first,
                   engine_calls, calls>>

Next == Tick \/ ExtractErrorInfo \/ ExtractAgain \/ ProcessLogFile \/ AnalyzeFailure

Spec == Init /\ [][Next]_vars

\* The engine alone, on the texts for the line-by-line extractors.
InitLines == InitWith(LineTexts, {"b.log"}, {MaxClock}) /\ calls = <<>>
NextLines == ExtractErrorInfo
SpecLines == InitLines /\ [][NextLines]_vars

(***************************************************************************)
(* Several calls of _extract_error_info on one LogProcessor, interleaved.  *)
(* A call evaluates the values of its dict literal in order.  The clock is *)
(* read by _extract_timestamp, service_patterns by _identify_service and   *)
(* error_patterns by _classify_error: each is a step of its own.  The      *)
(* other extractors read nothing but the call's own text and take one step *)
(* together.  The clock stands still while the calls run.                  *)
(***************************************************************************)

MaxCalls == 2

\* texts of concurrent calls: some match several entries of a table
CallTexts ==
    { "",
      "No such file",
      "Permission was DENIED: no such file",
      "2024-01-16 11:31:46,7 SparkException\n[x] AIRFLOW up\nConnection timed out" }

\* the object's attributes, as a call finds them
Shared == [service_patterns |-> service_patterns, error_patterns |-> error_patterns]

\* a call that has evaluated nothing yet
NewCall(text, path) ==
    [content |-> text, file_path |-> path, pc |-> "timestamp", at |-> 0,
     fields |-> [file_path |-> path]]

\* the call after the next value of its dict literal is evaluated
CallAfterStep(shared, call, t) ==
    CASE call.pc = "timestamp" ->
            [call EXCEPT !.pc = "service", !.at = t,
                         !.fields = @ @@ [timestamp |-> _extract_timestamp(call.content, t)]]
      [] call.pc = "service" ->
            [call EXCEPT !.pc = "error_type",
                         !.fields = @ @@ [service |->
                             _identify_service(shared.service_patterns, call.content)]]
      [] call.pc = "error_type" ->
            [call EXCEPT !.pc = "pipeline_name",
                         !.fields = @ @@ [error_type |->
                             _classify_error(shared.error_patterns, call.content)]]
      [] call.pc = "pipeline_name" ->
            [call EXCEPT !.pc = "done",
                         !.fields = @ @@ [pipeline_name |-> _extract_pipeline_name(call.content),
                                          step_name |-> _extract_step_name(call.content),
                                          error_message |-> _extract_main_error(call.content),
                                          stack_trace |-> _extract_stack_trace(call.content),
                                          full_content |-> call.content]]

\* the table with the entry of the given key moved to its front
MoveToFront(table, key) ==
    LET at == {i \in 1..Len(table) : table[i][1] = key}
    IN IF at = {} THEN table
       ELSE LET i == SetMin(at)
            IN <<table[i]>> \o SubSeq(table, 1, i - 1) \o SubSeq(table, i + 1, Len(table))

\* Faulty variant: _classify_error moves the entry it matched to the front of
\* error_patterns, to try it first in the next call
StepCallMoveToFront(shared, call, t) ==
    LET after == CallAfterStep(shared, call, t)
    IN [call |-> after,
        shared |-> IF call.pc = "error_type"
                   THEN [shared EXCEPT !.error_patterns = MoveToFront(@, after.fields.error_type)]
                   ELSE shared]

\* one step of a call: what it has evaluated, and the object's attributes
\* after it: no statement of the engine assigns to them or to their entries
StepCall(shared, call, t) ==
    [call |-> CallAfterStep(shared, call, t), shared |-> shared]

InitCalls ==
    /\ InitWith({""}, {"b.log"}, {MaxClock})
    /\ calls \in [1..MaxCalls -> {NewCall(text, "b.log") : text \in CallTexts}]

\* some call in flight takes its next step
CallStep ==
    /\ \E c \in DOMAIN calls :
          /\ calls[c].pc # "done"
          /\ LET out == StepCall(Shared, calls[c], now)
             IN /\ calls' = [calls EXCEPT ![c] = out.call]
                /\ service_patterns' = out.shared.service_patterns
                /\ error_patterns' = out.shared.error_patterns
    /\ UNCHANGED <<input, now, pc, read_ok, result, raised, called_at, first,
                   engine_calls, analysis, llm_requests>>

NextCalls == CallStep
SpecCalls == InitCalls /\ [][NextCalls]_vars

(***************************************************************************)
(* Claims checked under Spec                                               *)
(***************************************************************************)

NineKeys ==
    {"file_path", "timestamp", "service", "error_type", "pipeline_name",
     "step_name", "error_message", "stack_trace", "full_content"}

\* the patterns of a list that match the text, by their place in the list
GroupHits(patterns, text) ==
    {i \in 1..Len(patterns) : re_search_group1(patterns[i], text).found}
\* the entries of a table whose pattern matches the text, ignoring case
KeyHits(table, text) ==
    {i \in 1..Len(table) : re_search(table[i][2], text, TRUE)}

\* C1: every call of _extract_error_info, the empty text included, returns
\* without raising a record with exactly the nine keys, each bound to a string.
C1_NineStringFields ==
    pc \in {"extracted", "repeated"} =>
        /\ ~raised
        /\ DOMAIN result = NineKeys
        /\ \A k \in NineKeys : result[k] \in STRING

C1_Witness ==
    /\ pc = "extracted"
    /\ content = ""
    /\ DOMAIN result = NineKeys
    /\ result.stack_trace = ""

\* C2: each classifier returns the key of the first entry of its table, in
\* declaration order, whose pattern matches the text ignoring case, and its
\* sentinel exactly when none matches; text with an airflow and an emr
\* signature is classified as airflow.
C2_FirstDeclaredWins ==
    pc = "extracted" =>
        LET sh == KeyHits(service_patterns, content)
            eh == KeyHits(error_patterns, content)
            up == str_upper(content)
        IN /\ result.service =
                 IF sh = {} THEN "unknown" ELSE service_patterns[SetMin(sh)][1]
           /\ result.error_type =
                 IF eh = {} THEN "unknown_error" ELSE error_patterns[SetMin(eh)][1]
           /\ (result.service = "unknown") <=> (sh = {})
           /\ (result.error_type = "unknown_error") <=> (eh = {})
           /\ (str_contains(up, "AIRFLOW") /\ str_contains(up, "SPARKEXCEPTION"))
                 => result.service = "airflow"

C2_Witness ==
    /\ pc = "extracted"
    /\ content = MarkerLines[2] \o "\n" \o MarkerLines[1]
    /\ KeyHits(service_patterns, content) = {1, 2}
    /\ result.service = "airflow"

\* the text has none of the markers any extractor looks for
NoKnownMarkers(text) ==
    /\ KeyHits(ServicePatternsInit, text) = {}
    /\ KeyHits(ErrorPatternsInit, text) = {}
    /\ GroupHits(TimestampPatterns, text) = {}
    /\ GroupHits(PipelinePatterns, text) = {}
    /\ GroupHits(StepPatterns, text) = {}
    /\ \A i \in 1..Len(str_split(text)) :
          ~IsErrorLine(str_split(text)[i]) /\ ~IsHeaderLine(str_split(text)[i])

\* C4: for text with none of the known markers (the empty string among them)
\* the four enumerable fields are their unknown sentinels, error_message and
\* stack_trace are empty, and timestamp is the time of the call.
C4_SentinelRecord ==
    (pc = "extracted" /\ NoKnownMarkers(content)) =>
        /\ result.service = "unknown"
        /\ result.error_type = "unknown_error"
        /\ result.pipeline_name = "unknown_pipeline"
        /\ result.step_name = "unknown_step"
        /\ result.error_message = ""
        /\ result.stack_trace = ""
        /\ result.timestamp = strftime(called_at)

C4_Witness ==
    /\ pc = "extracted"
    /\ content = ""
    /\ called_at = MaxClock
    /\ result.step_name = "unknown_step"
    /\ result.timestamp = strftime(MaxClock)

KnownStamps ==
    << <<"[2024-01-15 10:30:45,123]", "2024-01-15 10:30:45">>,
       <<"2024-01-16 11:31:46,7", "2024-01-16 11:31:46">>,
       <<"[ERROR] 2024-01-17T12:32:47.5Z", "2024-01-17T12:32:47.5Z">>,
       <<"01/18/24 13:33:48", "01/18/24 13:33:48">> >>

\* C7: the timestamp is the captured text of the first of the four patterns,
\* in their fixed order, that matches anywhere in the text (also when a
\* later-ordered format stands earlier in the text), the time of the call when
\* none of them matches, and always a string.
C7_FirstTimestampPattern ==
    pc = "extracted" =>
        LET hits == GroupHits(TimestampPatterns, content)
            known == {i \in 1..Len(KnownStamps) : str_contains(content, KnownStamps[i][1])}
        IN /\ result.timestamp \in STRING
           /\ result.timestamp =
                 IF hits = {} THEN strftime(called_at)
                 ELSE re_search_group1(TimestampPatterns[SetMin(hits)], content).group
           /\ known = {} <=> hits = {}
           /\ known # {} => result.timestamp = KnownStamps[SetMin(known)][2]

C7_Witness ==
    /\ pc = "extracted"
    /\ content = MarkerLines[4] \o "\n" \o MarkerLines[1]
    /\ result.timestamp = "2024-01-15 10:30:45"

\* C8: pipeline_name and step_name are each the captured group of the first
\* pattern of their list that matches anywhere in the text, wherever
\* later-ordered labels stand, and unknown_pipeline / unknown_step exactly
\* when no pattern of the list matches; the lines 'Pipeline:
\* data_ingestion_dag' and 'Step: extract_user_data' give those two names.
C8_FirstNamePattern ==
    pc = "extracted" =>
        LET ph == GroupHits(PipelinePatterns, content)
            sh == GroupHits(StepPatterns, content)
        IN /\ result.pipeline_name =
                 IF ph = {} THEN "unknown_pipeline"
                 ELSE re_search_group1(PipelinePatterns[SetMin(ph)], content).group
           /\ result.step_name =
                 IF sh = {} THEN "unknown_step"
                 ELSE re_search_group1(StepPatterns[SetMin(sh)], content).group
           /\ (result.pipeline_name = "unknown_pipeline") <=> (ph = {})
           /\ (result.step_name = "unknown_step") <=> (sh = {})
           /\ str_contains(content, "Pipeline: data_ingestion_dag")
                 => result.pipeline_name = "data_ingestion_dag"
           /\ str_contains(content, "Step: extract_user_data")
                 => result.step_name = "extract_user_data"

C8_Witness ==
    /\ pc = "extracted"
    /\ content = MarkerLines[6] \o "\n" \o MarkerLines[5]
    /\ result.pipeline_name = "data_ingestion_dag"
    /\ result.step_name = "extract_user_data"

LineCount(s) == IF s = "" THEN 0 ELSE Len(str_split(s))

\* the n-th smallest element of a set of line numbers
Nth(S, n) == CHOOSE i \in S : Cardinality({j \in S : j < i}) = n - 1

\* C3: error_message has at most 3 lines and stack_trace at most 10, however
\* many error lines and frame lines the text has.
C3_OutputCaps ==
    pc = "extracted" =>
        /\ LineCount(result.error_message) <= 3
        /\ LineCount(result.stack_trace) <= 10

C3_Witness ==
    /\ pc = "extracted"
    /\ Cardinality({i \in 1..Len(str_split(content)) :
                       IsErrorLine(str_split(content)[i])}) > 3
    /\ Cardinality({i \in 1..Len(str_split(content)) :
                       IsFrameLine(str_split(content)[i])}) > 10
    /\ LineCount(result.error_message) = 3
    /\ LineCount(result.stack_trace) = 10

\* does the line hold the keyword in any mix of cases: lo and up are the
\* keyword in lower and in upper case
HoldsKeyword(line, lo, up) ==
    \E p \in 1..(Len(line) - Len(lo) + 1) :
        \A j \in 1..Len(lo) :
            SubSeq(line, p + j - 1, p + j - 1) \in {SubSeq(lo, j, j), SubSeq(up, j, j)}

Qualifies(line) ==
    \/ HoldsKeyword(line, "error", "ERROR")
    \/ HoldsKeyword(line, "exception", "EXCEPTION")
    \/ HoldsKeyword(line, "failed", "FAILED")

\* C9: error_message is the first min(3, k) of the k qualifying lines of the
\* text, in input order, each trimmed, joined by newline; it is empty exactly
\* when no line qualifies.
C9_FirstThreeErrorLines ==
    pc = "extracted" =>
        LET lines == str_split(content)
            q == {i \in 1..Len(lines) : Qualifies(lines[i])}
            k == Cardinality(q)
            expected == [n \in 1..(IF k < 3 THEN k ELSE 3) |-> str_strip(lines[Nth(q, n)])]
        IN /\ result.error_message = str_join(expected)
           /\ (result.error_message = "") <=> (q = {})

C9_Witness ==
    /\ pc = "extracted"
    /\ content = str_join(<<ErrLineOf(1), OkLineOf(2), ErrLineOf(3), ErrLineOf(4), ErrLineOf(5)>>)
    /\ result.error_message = "ERROR e1\nan exception x3\nERROR e4"

\* the first line after the first header line that the given test takes to
\* end the trace; 0 when there is none
RegionEnd(lines, Ends(_)) ==
    LET headers == {i \in 1..Len(lines) : IsHeaderLine(lines[i])}
        ends == IF headers = {} THEN {}
                ELSE {i \in (SetMin(headers) + 1)..Len(lines) : Ends(lines[i])}
    IN IF ends = {} THEN 0 ELSE SetMin(ends)

\* a line that ends the trace as the claim has it: non-empty when trimmed, no
\* frame line, no header line
EndsAsClaimed(line) ==
    /\ str_strip(line) # ""
    /\ ~str_startswith(str_strip(line), "at ")
    /\ ~str_startswith(str_strip(line), "File ")
    /\ ~str_contains(line, "\t")
    /\ ~str_contains(line, "Traceback")
    /\ ~str_contains(line, "Exception")

\* ... and as the loop has it: the line moreover holds neither "  at" nor "File"
EndsAsCoded(line) ==
    /\ EndsAsClaimed(line)
    /\ ~str_contains(line, "  at")
    /\ ~str_contains(line, "File")

\* nothing from line e on is collected: the trace is that of the text cut
\* before line e
NothingCollectedFrom(e) ==
    result.stack_trace = _extract_stack_trace(str_join(SubSeq(str_split(content), 1, e - 1)))

\* C6 as claimed: once a header line was seen, the first later line that is
\* non-empty when trimmed, is no frame line and holds neither 'Traceback' nor
\* 'Exception' ends the trace: no line after it is collected.
C6_AsClaimed ==
    pc = "extracted" =>
        LET e == RegionEnd(str_split(content), EndsAsClaimed)
        IN e # 0 => NothingCollectedFrom(e)

\* C6 (amended): once a header line was seen, the first later line that is
\* non-empty when trimmed, is no frame line, holds neither 'Traceback' nor
\* 'Exception' and holds neither '  at' nor 'File' ends the trace: no line
\* after it is collected, even a frame line; the header, two tab-prefixed
\* 'at' lines and 'Unrelated info line' give exactly the two frame lines.
C6_TraceEndsAtBreakLine ==
    pc = "extracted" =>
        LET e == RegionEnd(str_split(content), EndsAsCoded)
        IN /\ e # 0 => NothingCollectedFrom(e)
           /\ content = "Exception occurred\n\tat foo.bar()\n\tat baz.qux()\nUnrelated info line"
                 => result.stack_trace = "at foo.bar()\nat baz.qux()"

C6_Witness ==
    /\ pc = "extracted"
    /\ LET lines == str_split(content)
           e == RegionEnd(lines, EndsAsCoded)
       IN /\ e # 0
          /\ \E i \in (e + 1)..Len(lines) : IsFrameLine(lines[i])
          /\ LineCount(result.stack_trace) = 2

\* is p the beginning of q
IsPrefix(p, q) == Len(p) <= Len(q) /\ SubSeq(q, 1, Len(p)) = p

\* the lines inside the trace: those after the first header line and before
\* the first later line that the given test takes to end the trace
InsideTrace(lines, Ends(_)) ==
    LET headers == {i \in 1..Len(lines) : IsHeaderLine(lines[i])}
        e == RegionEnd(lines, Ends)
    IN IF headers = {} THEN <<>>
       ELSE SubSeq(lines, SetMin(headers) + 1, IF e = 0 THEN Len(lines) ELSE e - 1)

\* C11: while the extractor is inside a trace (a header line was seen, no line
\* has ended the trace), every frame line (trimmed text starting with 'at ' or
\* 'File ', or a tab in the raw line) is appended, trimmed, to the trace
\* buffer, in input order: the trimmed frame lines inside the trace are the
\* beginning of the buffer, whose first 10 lines are the stack_trace returned.
C11_EveryFrameLineAppended ==
    pc = "extracted" =>
        LET lines == str_split(content)
            frames == StripAll(SelectSeq(InsideTrace(lines, EndsAsClaimed), IsFrameLine))
            buffer == TraceLoop(lines, 1, FALSE, <<>>)
        IN /\ IsPrefix(frames, buffer)
           /\ result.stack_trace = str_join(Slice(buffer, MaxTraceLines))

(***************************************************************************)
(* Claims checked under SpecCalls                                          *)
(***************************************************************************)

\* C12: no step of an extraction call changes service_patterns,
\* error_patterns or the call's input text: after every step of any
\* interleaving of calls on one LogProcessor the tables are as constructed,
\* each call's text is what it was, and a call that has returned has the
\* record it gives when run alone on its text (at the clock reading it took),
\* with full_content equal to that text.
C12_CallsLeaveTablesAndTextAlone ==
    [][ /\ service_patterns' = ServicePatternsInit
        /\ error_patterns' = ErrorPatternsInit
        /\ DOMAIN calls' = DOMAIN calls
        /\ \A c \in DOMAIN calls :
              /\ calls'[c].content = calls[c].content
              /\ (calls'[c].pc = "done" /\ calls[c].pc # "done") =>
                    /\ calls'[c].fields.full_content = calls[c].content
                    /\ calls'[c].fields =
                          ErrorInfo(ServicePatternsInit, ErrorPatternsInit,
                                    calls[c].content, calls[c].file_path, calls'[c].at)
      ]_vars

\* two calls on different texts are in flight at once: one has classified a
\* text that matches a later entry of error_patterns, the other is about to
\* classify a text that matches that entry and an earlier one
C12_Witness ==
    /\ DOMAIN calls = 1..MaxCalls
    /\ calls[1].content = "No such file"
    /\ calls[1].pc = "pipeline_name"
    /\ calls[1].fields.error_type = "file_not_found"
    /\ calls[2].content = "Permission was DENIED: no such file"
    /\ calls[2].pc = "error_type"
    /\ error_patterns = ErrorPatternsInit

\* is p what is left of q when some of its elements are taken out
RECURSIVE IsSubsequence(_, _)
IsSubsequence(p, q) ==
    IF p = <<>> THEN TRUE
    ELSE IF q = <<>> THEN FALSE
    ELSE IF Head(p) = Head(q) THEN IsSubsequence(Tail(p), Tail(q))
    ELSE IsSubsequence(p, Tail(q))

NoHeaderLine(line) == ~IsHeaderLine(line)

\* the lines of the stack_trace returned: none when it is empty
TraceOutput == IF result.stack_trace = "" THEN <<>> ELSE str_split(result.stack_trace)

\* C13: every line of stack_trace is the trimmed text of an input line that
\* stands strictly after the first line holding 'Traceback' or 'Exception',
\* in input order, and no line of stack_trace holds 'Traceback' or
\* 'Exception'; so frame-like lines before the first header line are never
\* collected, and a text without a header line gives an empty stack_trace.
C13_OnlyLinesAfterFirstHeader ==
    pc = "extracted" =>
        LET lines == str_split(content)
            headers == {i \in 1..Len(lines) : IsHeaderLine(lines[i])}
            later == IF headers = {} THEN <<>>
                     ELSE SubSeq(lines, SetMin(headers) + 1, Len(lines))
        IN /\ headers = {} => result.stack_trace = ""
           /\ \A k \in 1..Len(TraceOutput) : ~IsHeaderLine(TraceOutput[k])
           /\ IsSubsequence(TraceOutput, StripAll(SelectSeq(later, NoHeaderLine)))

\* frame lines stand before the first header line and are not collected;
\* the frame line after it is
C13_Witness ==
    /\ pc = "extracted"
    /\ content = "at a.b()\n\tat c.d()\nNo Exception\n\nx  at y\n\tat e.f()"
    /\ LET lines == str_split(content)
       IN /\ IsFrameLine(lines[1]) /\ IsFrameLine(lines[2])
          /\ SetMin({i \in 1..Len(lines) : IsHeaderLine(lines[i])}) = 3
    /\ result.stack_trace = "at e.f()"

=============================================================================
